---- MODULE Spec2Model ----
(***************************************************************************)
(* Model of src/main.py: the ML analytics FastAPI backend.                 *)
(*                                                                         *)
(* State: the two module globals anomaly_detector and model_loaded, the    *)
(* position (pc) of the coroutine the event loop is running, that          *)
(* coroutine's locals, and the response the last request produced.         *)
(*                                                                         *)
(* Scheduling: every handler is an `async def` without an await, so the    *)
(* event loop runs it from its first statement to its return without       *)
(* interleaving another coroutine.  A handler starts only when pc = "idle".*)
(*                                                                         *)
(* Failures: the calls in a try body that go into scikit-learn / numpy     *)
(* (IsolationForest, randn, fit, predict), the logging call in the try     *)
(* body of load_ml_model and the per-item feature extraction may raise an  *)
(* Exception.  len(data), the construction of the response models from     *)
(* well-typed locals and the statements of the except handlers do not.     *)
(***************************************************************************)
EXTENDS Integers, Sequences, FiniteSets, TLC

\* Largest batch (number of events in one upload request) that is enumerated.
MaxBatch == 2

\* np.random.randn(1000, 5): the shape of the training sample.
SampleRows == 1000
SampleCols == 5

\* status.HTTP_500_INTERNAL_SERVER_ERROR and status.HTTP_503_SERVICE_UNAVAILABLE
HTTP_500_INTERNAL_SERVER_ERROR == 500
HTTP_503_SERVICE_UNAVAILABLE == 503

VARIABLES
    anomaly_detector,   \* global: None, or an IsolationForest (fitted or not)
    model_loaded,       \* global: the readiness flag
    startup,            \* the startup hook: "pending", "running", "returned", "raised"
    pc,                 \* position of the running coroutine, "idle" when none runs
    sample_data,        \* load_ml_model local
    load_exc,           \* the exception load_ml_model caught ("none" when none)
    fit_calls,          \* number of calls of anomaly_detector.fit so far
    data,               \* upload_analytics_data parameter
    processed_count,    \* upload_analytics_data local
    idx,                \* number of items the for loop has consumed
    features,           \* upload_analytics_data local
    anomalies,          \* upload_analytics_data local: the verdicts predict returned
    anomaly_count,      \* upload_analytics_data local
    exc,                \* the exception upload_analytics_data caught ("none" when none)
    predict_calls,      \* the calls of predict made by the running upload: <<model, X>>
    entry_loaded,       \* model_loaded when the running upload was submitted
    outcomes,           \* number of outcomes (return or raise) of the running request
    response            \* what the last request handed to the framework

globals == <<anomaly_detector, model_loaded>>
loadLocals == <<sample_data, load_exc, fit_calls>>
uploadLocals == <<data, processed_count, idx, features, anomalies, anomaly_count,
                  exc, predict_calls, entry_loaded>>
vars == <<anomaly_detector, model_loaded, startup, pc, sample_data, load_exc,
          fit_calls, data, processed_count, idx, features, anomalies,
          anomaly_count, exc, predict_calls, entry_loaded, outcomes, response>>

-----------------------------------------------------------------------------
\* Values

\* anomaly_detector = None
NoneModel == [kind |-> "None", fitted |-> FALSE, n_features_in |-> 0]

\* IsolationForest(contamination=0.1, random_state=42): constructed, not fitted.
\* The two parameters fix the ensemble, which no statement of main.py inspects.
IsolationForest == [kind |-> "IsolationForest", fitted |-> FALSE, n_features_in |-> 0]

\* np.random.randn(1000, 5)
randn(rows, cols) == [rows |-> rows, cols |-> cols]

NoSample == [rows |-> 0, cols |-> 0]

\* estimator.fit(X): the estimator, fitted on X's columns.
fit(estimator, X) == [estimator EXCEPT !.fitted = TRUE, !.n_features_in = X.cols]

\* estimator.predict(X) returns verdicts only on a fitted estimator, on at least
\* one row, and on rows of the width it was fitted on; otherwise it raises
\* (AttributeError on None, NotFittedError, ValueError).
CanPredict(estimator, X) ==
    /\ estimator.kind = "IsolationForest"
    /\ estimator.fitted
    /\ Len(X) >= 1
    /\ \A i \in 1..Len(X) : Len(X[i]) = estimator.n_features_in

\* The verdicts of predict: 1 (normal) or -1 (anomalous).
Verdicts == {1, -1}

\* AnalyticsData: the fields a request carries.  event_type and metadata are
\* read by no statement of main.py.
Timestamps == {[hour |-> 0, minute |-> 59], [hour |-> 23, minute |-> 7]}
UserIds == {"u", "user42"}
PageUrls == {"", "/home"}
SessionIds == {"abc"}

AnalyticsData ==
    [timestamp : Timestamps, user_id : UserIds, event_type : {"click"},
     page_url : PageUrls, session_id : SessionIds, metadata : {"None"}]

\* List[AnalyticsData], up to MaxBatch items
Batches == UNION {[1..n -> AnalyticsData] : n \in 0..MaxBatch}

NoResponse == [kind |-> "none"]

-----------------------------------------------------------------------------
\* Pure parts of upload_analytics_data


\* Mutation of feature_vector: hour and minute in the wrong order.
feature_vector_Swapped(item) ==
    << Len(item.user_id),
       Len(item.page_url),
       Len(item.session_id),
       item.timestamp.minute,
       item.timestamp.hour >>

\* main.py 125-131
feature_vector(item) ==
    << Len(item.user_id),
       Len(item.page_url),
       Len(item.session_id),
       item.timestamp.hour,
       item.timestamp.minute >>


\* Mutation of CountAnomalies: `if a == 1`, the normal verdicts are counted.
CountAnomalies_Normal(verdicts) == Cardinality({i \in 1..Len(verdicts) : verdicts[i] = 1})

\* main.py 136: sum(1 for a in anomalies if a == -1)
CountAnomalies(verdicts) == Cardinality({i \in 1..Len(verdicts) : verdicts[i] = -1})

\* main.py 140-149
SuccessResponse(n, m) ==
    [kind |-> "AnalyticsResponse",
     status |-> "success",
     message |-> <<"Processed ", n, " events, detected ", m, " anomalies">>,
     data |-> [processed_events |-> n, anomalies_detected |-> m]]

\* main.py 153-156
FailureResponse(e) ==
    [kind |-> "HTTPException",
     status_code |-> HTTP_500_INTERNAL_SERVER_ERROR,
     detail |-> <<"Failed to process analytics data: ", e>>]

-----------------------------------------------------------------------------
Init ==
    /\ anomaly_detector = NoneModel
    /\ model_loaded = FALSE
    /\ startup = "pending"
    /\ pc = "idle"
    /\ sample_data = NoSample
    /\ load_exc = "none"
    /\ fit_calls = 0
    /\ data = <<>>
    /\ processed_count = 0
    /\ idx = 0
    /\ features = <<>>
    /\ anomalies = <<>>
    /\ anomaly_count = 0
    /\ exc = "none"
    /\ predict_calls = <<>>
    /\ entry_loaded = FALSE
    /\ outcomes = 0
    /\ response = NoResponse

-----------------------------------------------------------------------------
\* load_ml_model, the startup hook (main.py 62-83).  The framework runs it once.

\* The lifespan startup calls the hook.
StartLoad ==
    /\ pc = "idle"
    /\ startup = "pending"
    /\ startup' = "running"
    /\ pc' = "L69"
    /\ UNCHANGED <<globals, loadLocals, uploadLocals, outcomes, response>>

\* An exception raised in the try body of load_ml_model: control goes to line 81.
LoadRaise(what) ==
    /\ load_exc' = what
    /\ pc' = "L82"

\* 69: anomaly_detector = IsolationForest(contamination=0.1, random_state=42)
L69 ==
    /\ pc = "L69"
    /\ \/ /\ anomaly_detector' = IsolationForest
          /\ pc' = "L75"
          /\ UNCHANGED load_exc
       \/ /\ LoadRaise("IsolationForest")
          /\ UNCHANGED anomaly_detector
    /\ UNCHANGED <<model_loaded, startup, sample_data, fit_calls, uploadLocals,
                   outcomes, response>>

\* 75: sample_data = np.random.randn(1000, 5)
L75 ==
    /\ pc = "L75"
    /\ \/ /\ sample_data' = randn(SampleRows, SampleCols)
          /\ pc' = "L76"
          /\ UNCHANGED load_exc
       \/ /\ LoadRaise("randn")
          /\ UNCHANGED sample_data
    /\ UNCHANGED <<globals, startup, fit_calls, uploadLocals, outcomes, response>>


\* Mutation of L76: the call of fit is missing.
L76_NoFit ==
    /\ pc = "L76"
    /\ pc' = "L78"
    /\ UNCHANGED <<globals, startup, loadLocals, uploadLocals, outcomes, response>>

\* 76: anomaly_detector.fit(sample_data); fit updates the object in place.
L76 ==
    /\ pc = "L76"
    /\ fit_calls' = fit_calls + 1
    /\ \/ /\ anomaly_detector' = fit(anomaly_detector, sample_data)
          /\ pc' = "L78"
          /\ UNCHANGED load_exc
       \/ /\ LoadRaise("fit")
          /\ UNCHANGED anomaly_detector
    /\ UNCHANGED <<model_loaded, startup, sample_data, uploadLocals, outcomes,
                   response>>

\* 78: model_loaded = True
L78 ==
    /\ pc = "L78"
    /\ model_loaded' = TRUE
    /\ pc' = "L79"
    /\ UNCHANGED <<anomaly_detector, startup, loadLocals, uploadLocals, outcomes,
                   response>>

\* The hook returns to the framework.
LoadReturn ==
    /\ pc' = "idle"
    /\ startup' = "returned"

\* 79: logger.info("ML model loaded successfully"), the last statement of the
\* try body; the function returns after it.
L79 ==
    /\ pc = "L79"
    /\ \/ /\ LoadReturn
          /\ UNCHANGED load_exc
       \/ /\ LoadRaise("logger.info")
          /\ UNCHANGED startup
    /\ UNCHANGED <<globals, sample_data, fit_calls, uploadLocals, outcomes, response>>


\* Mutation of L82: the handler logs and re-raises, so the exception leaves the hook.
L82_Reraise ==
    /\ pc = "L82"
    /\ pc' = "idle"
    /\ startup' = "raised"
    /\ UNCHANGED <<globals, loadLocals, uploadLocals, outcomes, response>>

\* 81-82: except Exception as e: logger.error(...)
L82 ==
    /\ pc = "L82"
    /\ pc' = "L83"
    /\ UNCHANGED <<globals, startup, loadLocals, uploadLocals, outcomes, response>>

\* 83: model_loaded = False; the function returns after it.
L83 ==
    /\ pc = "L83"
    /\ model_loaded' = FALSE
    /\ LoadReturn
    /\ UNCHANGED <<anomaly_detector, loadLocals, uploadLocals, outcomes, response>>

load_ml_model == StartLoad \/ L69 \/ L75 \/ L76 \/ L78 \/ L79 \/ L82 \/ L83

-----------------------------------------------------------------------------
\* health_check (main.py 85-100)


\* Mutation of HealthResponse: the entry follows the model object, not the flag.
HealthResponse_FromDetector ==
    [kind |-> "HealthResponse",
     status |-> "healthy",
     version |-> "1.0.0",
     services |-> [api |-> "healthy",
                   ml_model |-> IF anomaly_detector # NoneModel
                                THEN "healthy" ELSE "unhealthy",
                   database |-> "healthy",
                   redis |-> "healthy"]]

HealthResponse ==
    [kind |-> "HealthResponse",
     status |-> "healthy",
     version |-> "1.0.0",
     services |-> [api |-> "healthy",
                   ml_model |-> IF model_loaded THEN "healthy" ELSE "unhealthy",
                   database |-> "healthy",
                   redis |-> "healthy"]]

health_check ==
    /\ pc = "idle"
    /\ response' = HealthResponse
    /\ outcomes' = 1
    /\ UNCHANGED <<globals, startup, pc, loadLocals, uploadLocals>>

-----------------------------------------------------------------------------
\* get_ml_predictions (main.py 185-210)

get_ml_predictions ==
    /\ pc = "idle"
    /\ response' = IF ~model_loaded
                   THEN [kind |-> "HTTPException",
                         status_code |-> HTTP_503_SERVICE_UNAVAILABLE,
                         detail |-> <<"ML model not loaded">>]
                   ELSE [kind |-> "predictions"]
    /\ outcomes' = 1
    /\ UNCHANGED <<globals, startup, pc, loadLocals, uploadLocals>>

-----------------------------------------------------------------------------
\* upload_analytics_data (main.py 113-156)

\* The framework calls the handler with a validated batch.
Submit(batch) ==
    /\ pc = "idle"
    /\ data' = batch
    /\ entry_loaded' = model_loaded
    /\ processed_count' = 0
    /\ idx' = 0
    /\ features' = <<>>
    /\ anomalies' = <<>>
    /\ anomaly_count' = 0
    /\ exc' = "none"
    /\ predict_calls' = <<>>
    /\ outcomes' = 0
    /\ response' = NoResponse
    /\ pc' = "L118"
    /\ UNCHANGED <<globals, startup, loadLocals>>

\* An exception raised in the try body of the handler: control goes to line 151.
UploadRaise(what) ==
    /\ exc' = what
    /\ pc' = "L152"

\* 118: processed_count = len(data)
L118 ==
    /\ pc = "L118"
    /\ processed_count' = Len(data)
    /\ pc' = "L121"
    /\ UNCHANGED <<globals, startup, loadLocals, data, idx, features, anomalies,
                   anomaly_count, exc, predict_calls, entry_loaded, outcomes,
                   response>>


\* Mutation of L121: `if data:`, the readiness flag is not consulted.
L121_NoFlagCheck ==
    /\ pc = "L121"
    /\ IF data # <<>>
       THEN /\ features' = <<>>
            /\ pc' = "L124"
       ELSE /\ pc' = "L138"
            /\ UNCHANGED features
    /\ UNCHANGED <<globals, startup, loadLocals, data, processed_count, idx,
                   anomalies, anomaly_count, exc, predict_calls, entry_loaded,
                   outcomes, response>>

\* Mutation of L121: `if model_loaded:`, an empty batch is scored too.
L121_NoEmptyCheck ==
    /\ pc = "L121"
    /\ IF model_loaded
       THEN /\ features' = <<>>
            /\ pc' = "L124"
       ELSE /\ pc' = "L138"
            /\ UNCHANGED features
    /\ UNCHANGED <<globals, startup, loadLocals, data, processed_count, idx,
                   anomalies, anomaly_count, exc, predict_calls, entry_loaded,
                   outcomes, response>>

\* 121: if model_loaded and data:   (123: features = [])
L121 ==
    /\ pc = "L121"
    /\ IF model_loaded /\ data # <<>>
       THEN /\ features' = <<>>
            /\ pc' = "L124"
       ELSE /\ pc' = "L138"
            /\ UNCHANGED features
    /\ UNCHANGED <<globals, startup, loadLocals, data, processed_count, idx,
                   anomalies, anomaly_count, exc, predict_calls, entry_loaded,
                   outcomes, response>>

\* 124-132: one iteration of `for item in data`, or the end of the loop.
L124 ==
    /\ pc = "L124"
    /\ IF idx < Len(data)
       THEN \/ /\ features' = Append(features, feature_vector(data[idx + 1]))
               /\ idx' = idx + 1
               /\ UNCHANGED <<pc, exc>>
            \/ /\ UploadRaise("feature_vector")
               /\ UNCHANGED <<features, idx>>
       ELSE /\ pc' = "L135"
            /\ UNCHANGED <<features, idx, exc>>
    /\ UNCHANGED <<globals, startup, loadLocals, data, processed_count, anomalies,
                   anomaly_count, predict_calls, entry_loaded, outcomes, response>>

\* 135: anomalies = anomaly_detector.predict(features)
L135 ==
    /\ pc = "L135"
    /\ predict_calls' = Append(predict_calls, <<anomaly_detector, features>>)
    /\ \/ /\ CanPredict(anomaly_detector, features)
          /\ \E verdicts \in [1..Len(features) -> Verdicts] :
                anomalies' = verdicts
          /\ pc' = "L136"
          /\ UNCHANGED exc
       \/ /\ UploadRaise("predict")
          /\ UNCHANGED anomalies
    /\ UNCHANGED <<globals, startup, loadLocals, data, processed_count, idx,
                   features, anomaly_count, entry_loaded, outcomes, response>>

\* 136: anomaly_count = sum(1 for a in anomalies if a == -1)
L136 ==
    /\ pc = "L136"
    /\ anomaly_count' = CountAnomalies(anomalies)
    /\ pc' = "L140"
    /\ UNCHANGED <<globals, startup, loadLocals, data, processed_count, idx,
                   features, anomalies, exc, predict_calls, entry_loaded,
                   outcomes, response>>

\* 138: anomaly_count = 0
L138 ==
    /\ pc = "L138"
    /\ anomaly_count' = 0
    /\ pc' = "L140"
    /\ UNCHANGED <<globals, startup, loadLocals, data, processed_count, idx,
                   features, anomalies, exc, predict_calls, entry_loaded,
                   outcomes, response>>

\* 140-149: return AnalyticsResponse(...)
L140 ==
    /\ pc = "L140"
    /\ response' = SuccessResponse(processed_count, anomaly_count)
    /\ outcomes' = outcomes + 1
    /\ pc' = "done"
    /\ UNCHANGED <<globals, startup, loadLocals, uploadLocals>>


\* Mutation of L152: the handler also clears the readiness flag, as the
\* except handler of load_ml_model does.
L152_ResetFlag ==
    /\ pc = "L152"
    /\ pc' = "L153"
    /\ model_loaded' = FALSE
    /\ UNCHANGED <<anomaly_detector, startup, loadLocals, uploadLocals, outcomes,
                   response>>

\* 151-152: except Exception as e: logger.error(...)
L152 ==
    /\ pc = "L152"
    /\ pc' = "L153"
    /\ UNCHANGED <<globals, startup, loadLocals, uploadLocals, outcomes, response>>


\* Mutation of L153: the handler swallows the exception and returns the counts
\* it has so far.
L153_ReturnPartial ==
    /\ pc = "L153"
    /\ response' = SuccessResponse(processed_count, anomaly_count)
    /\ outcomes' = outcomes + 1
    /\ pc' = "done"
    /\ UNCHANGED <<globals, startup, loadLocals, uploadLocals>>

\* 153-156: raise HTTPException(status_code=500, detail=...)
L153 ==
    /\ pc = "L153"
    /\ response' = FailureResponse(exc)
    /\ outcomes' = outcomes + 1
    /\ pc' = "done"
    /\ UNCHANGED <<globals, startup, loadLocals, uploadLocals>>

\* The handler's frame is gone; the event loop is free for the next coroutine.
Complete ==
    /\ pc = "done"
    /\ pc' = "idle"
    /\ data' = <<>>
    /\ processed_count' = 0
    /\ idx' = 0
    /\ features' = <<>>
    /\ anomalies' = <<>>
    /\ anomaly_count' = 0
    /\ exc' = "none"
    /\ predict_calls' = <<>>
    /\ entry_loaded' = FALSE
    /\ UNCHANGED <<globals, startup, loadLocals, outcomes, response>>

upload_analytics_data ==
    \/ \E batch \in Batches : Submit(batch)
    \/ L118 \/ L121 \/ L124 \/ L135 \/ L136 \/ L138 \/ L140 \/ L152 \/ L153
    \/ Complete

-----------------------------------------------------------------------------
Next == load_ml_model \/ health_check \/ get_ml_predictions \/ upload_analytics_data

Spec == Init /\ [][Next]_vars

-----------------------------------------------------------------------------
\* Properties

LoadPcs == {"L69", "L75", "L76", "L78", "L79", "L82", "L83"}
UploadPcs == {"L118", "L121", "L124", "L135", "L136", "L138", "L140", "L152",
              "L153", "done"}

\* C1: an upload submitted while model_loaded is False, whatever the size of the
\* batch, never reaches the scoring branch or the except handler, never calls
\* predict, and ends with the success response that carries
\* processed_events = len(batch) and anomalies_detected = 0.
C1_NotReadyDegraded ==
    (pc \in UploadPcs /\ ~entry_loaded) =>
        /\ pc \notin {"L124", "L135", "L136", "L152", "L153"}
        /\ predict_calls = <<>>
        /\ exc = "none"
        /\ pc = "done" =>
              /\ response.kind = "AnalyticsResponse"
              /\ response.status = "success"
              /\ response.data.processed_events = Len(data)
              /\ response.data.anomalies_detected = 0

\* A batch of MaxBatch events has been answered while the model was not ready.
C1_Witness ==
    /\ pc = "done"
    /\ ~entry_loaded
    /\ Len(data) = MaxBatch
    /\ response.kind = "AnalyticsResponse"
    /\ response.data.processed_events = MaxBatch

\* C2: once model_loaded is True no step makes it False again.
C2_ReadyNeverReverts == [][model_loaded => model_loaded']_vars

\* C3: whenever model_loaded is True, anomaly_detector is an IsolationForest
\* fitted on the 5 columns of the training sample; a fitted anomaly_detector
\* is never replaced or changed by a later step, so a reader that saw the flag
\* True finds the fitted model however late it reads the reference; and every
\* call of predict an upload has made was made on such a model.
C3_ReadyImpliesFitted ==
    /\ [](/\ model_loaded =>
                /\ anomaly_detector.kind = "IsolationForest"
                /\ anomaly_detector.fitted
                /\ anomaly_detector.n_features_in = 5
          /\ \A i \in 1..Len(predict_calls) :
                /\ predict_calls[i][1].kind = "IsolationForest"
                /\ predict_calls[i][1].fitted
                /\ predict_calls[i][1].n_features_in = 5)
    /\ [][anomaly_detector.fitted => (anomaly_detector' = anomaly_detector)]_vars

\* An upload that saw the model ready has called predict.
C3_Witness ==
    /\ pc = "L136"
    /\ model_loaded
    /\ Len(predict_calls) = 1
    /\ predict_calls[1][1] = anomaly_detector

\* C4: in an upload of a non-empty batch submitted while the model is ready,
\* the features built so far are those of the first events in batch order,
\* predict is called at most once, and a call that returns a result has called
\* predict exactly once, on the vectors of all the events, and reports
\* processed_events = len(batch) and anomalies_detected = the number of -1
\* verdicts of that call, which lies between 0 and processed_events.
C4_ReadyScoring ==
    (pc \in UploadPcs /\ entry_loaded /\ data # <<>>) =>
        /\ Len(features) = idx
        /\ idx <= Len(data)
        /\ \A i \in 1..Len(features) : features[i] = feature_vector(data[i])
        /\ Len(predict_calls) <= 1
        /\ (pc = "done" /\ response.kind = "AnalyticsResponse") =>
              /\ Len(features) = Len(data)
              /\ Len(predict_calls) = 1
              /\ predict_calls[1][2] = features
              /\ Len(anomalies) = Len(data)
              /\ response.data.processed_events = Len(data)
              /\ response.data.anomalies_detected =
                    Cardinality({i \in 1..Len(anomalies) : anomalies[i] = -1})
              /\ 0 <= response.data.anomalies_detected
              /\ response.data.anomalies_detected <= response.data.processed_events

\* A batch of MaxBatch events has been scored with exactly one anomalous verdict.
C4_Witness ==
    /\ pc = "done"
    /\ entry_loaded
    /\ Len(data) = MaxBatch
    /\ response.kind = "AnalyticsResponse"
    /\ anomalies[1] = -1
    /\ \A i \in 2..Len(anomalies) : anomalies[i] = 1
    /\ response.data.anomalies_detected = 1

\* C5: an upload of an empty batch, with the model ready or not, never calls
\* predict, never raises, and ends with the success response that carries
\* processed_events = 0 and anomalies_detected = 0.
C5_EmptyBatch ==
    (pc \in UploadPcs /\ data = <<>>) =>
        /\ predict_calls = <<>>
        /\ exc = "none"
        /\ pc \notin {"L152", "L153"}
        /\ pc = "done" =>
              /\ response.kind = "AnalyticsResponse"
              /\ response.status = "success"
              /\ response.data.processed_events = 0
              /\ response.data.anomalies_detected = 0

\* An empty batch has been answered while the model was ready.
C5_Witness ==
    /\ pc = "done"
    /\ data = <<>>
    /\ model_loaded
    /\ response.kind = "AnalyticsResponse"

\* C6: the startup hook never raises; when a step of it has failed, the hook
\* has returned with model_loaded False; fit is called at most once, and the
\* except handler only proceeds to the return, never back into the try body.
C6_LoadFailureAbsorbed ==
    /\ [](/\ startup # "raised"
          /\ fit_calls <= 1
          /\ (startup = "returned" /\ load_exc # "none") => ~model_loaded)
    /\ [][(pc \in {"L82", "L83"}) => (pc' \in {"L83", "idle"})]_vars

\* The hook has returned after fit raised.
C6_Witness ==
    /\ startup = "returned"
    /\ load_exc = "fit"
    /\ pc = "idle"
    /\ ~model_loaded

\* C7: an exception raised in the try body of an upload always reaches the
\* except handler, which raises the HTTP 500 exception whose detail names the
\* failure; a finished call has exactly one outcome, the complete success
\* response when nothing was raised and the HTTP 500 otherwise; the steps of
\* the except handler leave anomaly_detector and model_loaded as they are.
C7_FailureIsHttp500 ==
    /\ [](/\ exc # "none" => pc \in {"L152", "L153", "done"}
          /\ outcomes <= 1
          /\ pc = "done" =>
                /\ outcomes = 1
                /\ exc = "none" =>
                      /\ response.kind = "AnalyticsResponse"
                      /\ response.data.processed_events = Len(data)
                      /\ response.data.anomalies_detected = anomaly_count
                /\ exc # "none" =>
                      /\ response.kind = "HTTPException"
                      /\ response.status_code = 500
                      /\ response.detail =
                            <<"Failed to process analytics data: ", exc>>)
    /\ [][(exc' # "none" /\ pc' \in UploadPcs) =>
             /\ anomaly_detector' = anomaly_detector
             /\ model_loaded' = model_loaded]_vars

\* An upload has ended in the HTTP 500 after predict raised on a ready model.
C7_Witness ==
    /\ pc = "done"
    /\ exc = "predict"
    /\ model_loaded
    /\ response.kind = "HTTPException"

\* C8: every health_check, with the model ready or not, returns the full
\* report: status "healthy", the api, database and redis entries "healthy",
\* and the ml_model entry "healthy" when model_loaded is True and "unhealthy"
\* when it is False.
C8_HealthReport ==
    [][(pc = "idle" /\ pc' = "idle" /\ response'.kind = "HealthResponse") =>
          /\ response'.status = "healthy"
          /\ response'.version = "1.0.0"
          /\ DOMAIN response'.services = {"api", "ml_model", "database", "redis"}
          /\ response'.services.api = "healthy"
          /\ response'.services.database = "healthy"
          /\ response'.services.redis = "healthy"
          /\ model_loaded => response'.services.ml_model = "healthy"
          /\ ~model_loaded => response'.services.ml_model = "unhealthy"]_vars

\* A health report has been returned for a model that failed to load.
C8_Witness ==
    /\ pc = "idle"
    /\ response.kind = "HealthResponse"
    /\ response.services.ml_model = "unhealthy"
    /\ startup = "returned"
    /\ ~model_loaded

\* C9: no step of an upload changes model_loaded or anomaly_detector, and a
\* step that changes either of them is a step of load_ml_model.
C9_ScoringReadOnly ==
    /\ [][(pc \in UploadPcs \/ pc' \in UploadPcs) =>
             /\ anomaly_detector' = anomaly_detector
             /\ model_loaded' = model_loaded]_vars
    /\ [][(anomaly_detector' # anomaly_detector \/ model_loaded' # model_loaded) =>
             pc \in LoadPcs]_vars

\* An upload has failed in predict on a ready model and reached its end.
C9_Witness ==
    /\ pc = "done"
    /\ Len(predict_calls) = 1
    /\ exc # "none"
    /\ model_loaded
    /\ anomaly_detector.fitted

\* C10: every vector the loop has built has exactly 5 entries, the lengths of
\* user_id, page_url and session_id and the hour and minute of the timestamp
\* of its event, in that order; vectors built from equal events are equal.
C10_FeatureVector ==
    /\ Len(features) <= Len(data)
    /\ \A i \in 1..Len(features) :
          /\ Len(features[i]) = 5
          /\ features[i][1] = Len(data[i].user_id)
          /\ features[i][2] = Len(data[i].page_url)
          /\ features[i][3] = Len(data[i].session_id)
          /\ features[i][4] = data[i].timestamp.hour
          /\ features[i][5] = data[i].timestamp.minute
    /\ \A i, j \in 1..Len(features) : data[i] = data[j] => features[i] = features[j]

\* The vector of a "user42" event on "/home" at 23:07 has been built, after
\* the vector of an event at 00:59 with an empty page_url.
C10_Witness ==
    /\ Len(features) = 2
    /\ features[1] = <<1, 0, 3, 0, 59>>
    /\ features[2] = <<6, 5, 3, 23, 7>>

====
